---- MODULE Spec2Model ----
(***************************************************************************)
(* Model of the LCD 1602A driver of src/src/main.rs (struct Lcd1602):      *)
(* an HD44780 controller in 4-bit mode behind a PCF8574 I2C expander.      *)
(*                                                                         *)
(* The observable behaviour of the driver is the transcript of what it     *)
(* does to the outside world: single-byte I2C writes and programmed        *)
(* delays.  Every method of Lcd1602 is a straight-line sequence of such    *)
(* steps whose only branching is the early return of `?` on a failed I2C   *)
(* write.  So each method is modelled by the sequence of steps its body    *)
(* takes on a bus that accepts every write, and Exec runs such a sequence  *)
(* on the real bus, where a write may fail and `?` then returns.  Each     *)
(* public operation is one action.                                         *)
(***************************************************************************)
EXTENDS Integers, Sequences, FiniteSets

VARIABLES
    handle,     \* "none" before Lcd1602::new, "ready" when new returned Ok(lcd),
                \* "failed" when new returned Err, "aborted" after a panic
    address,    \* Lcd1602.address
    backlight,  \* Lcd1602.backlight
    bus,        \* transcript: every I2C write and every delay, in order
    calls       \* one record per method call made by the caller, in order

vars == <<handle, address, backlight, bus, calls>>

----------------------------------------------------------------------------
(* Constants of main.rs *)

LCD_ADDRESS == 39
LCD_WIDTH == 16

LCD_RS == 1
LCD_RW == 2
LCD_EN == 4
LCD_BACKLIGHT == 8

LCD_CLEAR_DISPLAY == 1
LCD_ENTRY_MODE_SET == 4
LCD_DISPLAY_CONTROL == 8
LCD_FUNCTION_SET == 32
LCD_SET_DDRAM_ADDR == 128

LCD_ENTRY_INCREMENT == 2
LCD_DISPLAY_ON == 4

LCD_4BIT_MODE == 0
LCD_2LINE == 8
LCD_5x8DOTS == 0

----------------------------------------------------------------------------
(* u8 arithmetic as Rust computes it *)

U8 == 0..255

RECURSIVE And8(_, _, _)
And8(a, b, n) ==
    IF n = 0 THEN 0
    ELSE (a % 2) * (b % 2) + 2 * And8(a \div 2, b \div 2, n - 1)

RECURSIVE Or8(_, _, _)
Or8(a, b, n) ==
    IF n = 0 THEN 0
    ELSE (IF a % 2 = 1 \/ b % 2 = 1 THEN 1 ELSE 0)
         + 2 * Or8(a \div 2, b \div 2, n - 1)

\* a & b
BitAnd(a, b) == And8(a, b, 8)

\* a | b
BitOr(a, b) == Or8(a, b, 8)

\* !a
BitNot(a) == 255 - a

\* a << k on a u8: the bits shifted past bit 7 are lost
Shl(a, k) == (a * (2 ^ k)) % 256

\* ch as u8: a char cast keeps the low 8 bits of the code point
CharAsU8(ch) == ch % 256

----------------------------------------------------------------------------
(* The steps of a method *)

\* self.i2c_write(data)?, i.e. self.i2c.write(self.address, &[data]) and `?`
WriteStep(data) == [kind |-> "write", val |-> data]

\* self.delay.delay_ns(ns)
DelayStep(ns) == [kind |-> "delay_ns", val |-> ns]

\* thread::sleep(Duration::from_nanos(ns))
SleepStep(ns) == [kind |-> "sleep", val |-> ns]

\* fn i2c_write(&mut self, data: u8)
i2c_write(data) == <<WriteStep(data)>>

\* fn short_delay(&mut self, nanoseconds: u32)
short_delay(nanoseconds) == <<DelayStep(nanoseconds)>>

\* fn long_delay(&mut self, nanoseconds: u32)
long_delay(nanoseconds) ==
    <<DelayStep(nanoseconds)>>
    \o (IF nanoseconds > 1000000 THEN <<SleepStep(nanoseconds)>> ELSE << >>)

\* write_4bits without the write that takes EN low again
write_4bits_no_low(bl, data) ==
    LET byte_val == BitOr(data, bl)
    IN  i2c_write(byte_val)
        \o short_delay(1000)
        \o i2c_write(BitOr(byte_val, LCD_EN))
        \o short_delay(1000)
        \o short_delay(50000)

\* write_4bits that leaves self.backlight out of the byte
write_4bits_no_backlight(bl, data) ==
    LET byte_val == data
    IN  i2c_write(byte_val)
        \o short_delay(1000)
        \o i2c_write(BitOr(byte_val, LCD_EN))
        \o short_delay(1000)
        \o i2c_write(BitAnd(byte_val, BitNot(LCD_EN)))
        \o short_delay(50000)

\* write_4bits that waits 1 us, not 50 us, after the pulse
write_4bits_short_settle(bl, data) ==
    LET byte_val == BitOr(data, bl)
    IN  i2c_write(byte_val)
        \o short_delay(1000)
        \o i2c_write(BitOr(byte_val, LCD_EN))
        \o short_delay(1000)
        \o i2c_write(BitAnd(byte_val, BitNot(LCD_EN)))
        \o short_delay(1000)

\* write_4bits that lowers EN first and pulses it high last
write_4bits_ends_high(bl, data) ==
    LET byte_val == BitOr(data, bl)
    IN  i2c_write(byte_val)
        \o short_delay(1000)
        \o i2c_write(BitAnd(byte_val, BitNot(LCD_EN)))
        \o short_delay(1000)
        \o i2c_write(BitOr(byte_val, LCD_EN))
        \o short_delay(50000)

\* fn write_4bits(&mut self, data: u8); bl is self.backlight
write_4bits(bl, data) ==
    LET byte_val == BitOr(data, bl)
    IN  i2c_write(byte_val)
        \o short_delay(1000)
        \o i2c_write(BitOr(byte_val, LCD_EN))
        \o short_delay(1000)
        \o i2c_write(BitAnd(byte_val, BitNot(LCD_EN)))
        \o short_delay(50000)

\* send that takes the low nibble without shifting it up
send_low_unshifted(bl, value, mode) ==
    LET high_nibble == BitAnd(value, 240)
        low_nibble == BitAnd(value, 15)
    IN  write_4bits(bl, BitOr(high_nibble, mode))
        \o write_4bits(bl, BitOr(low_nibble, mode))

\* send that returns after the high nibble
send_high_only(bl, value, mode) ==
    LET high_nibble == BitAnd(value, 240)
    IN  write_4bits(bl, BitOr(high_nibble, mode))

\* fn send(&mut self, value: u8, mode: u8)
send(bl, value, mode) ==
    LET high_nibble == BitAnd(value, 240)
        low_nibble == BitAnd(Shl(value, 4), 240)
    IN  write_4bits(bl, BitOr(high_nibble, mode))
        \o write_4bits(bl, BitOr(low_nibble, mode))

\* fn command(&mut self, cmd: u8)
command(bl, cmd) == send(bl, cmd, 0) \o short_delay(2000000)

\* fn write_data(&mut self, data: u8)
write_data(bl, data) == send(bl, data, LCD_RS) \o short_delay(1000000)

\* init that starts without the power-on wait
init_no_power_wait(bl) ==
    write_4bits(bl, 3) \o long_delay(4500000)
    \o write_4bits(bl, 3) \o long_delay(4500000)
    \o write_4bits(bl, 3) \o long_delay(150000)
    \o write_4bits(bl, 2) \o long_delay(150000)
    \o command(bl, BitOr(BitOr(BitOr(LCD_FUNCTION_SET, LCD_4BIT_MODE),
                               LCD_2LINE), LCD_5x8DOTS))
    \o command(bl, BitOr(LCD_DISPLAY_CONTROL, LCD_DISPLAY_ON))
    \o command(bl, LCD_CLEAR_DISPLAY) \o long_delay(2000000)
    \o command(bl, BitOr(LCD_ENTRY_MODE_SET, LCD_ENTRY_INCREMENT))

\* fn init(&mut self)
init(bl) ==
    long_delay(50000000)
    \o write_4bits(bl, 3) \o long_delay(4500000)
    \o write_4bits(bl, 3) \o long_delay(4500000)
    \o write_4bits(bl, 3) \o long_delay(150000)
    \o write_4bits(bl, 2) \o long_delay(150000)
    \o command(bl, BitOr(BitOr(BitOr(LCD_FUNCTION_SET, LCD_4BIT_MODE),
                               LCD_2LINE), LCD_5x8DOTS))
    \o command(bl, BitOr(LCD_DISPLAY_CONTROL, LCD_DISPLAY_ON))
    \o command(bl, LCD_CLEAR_DISPLAY) \o long_delay(2000000)
    \o command(bl, BitOr(LCD_ENTRY_MODE_SET, LCD_ENTRY_INCREMENT))

\* The loop of print with the width test off by one (i <= LCD_WIDTH)
RECURSIVE print_from_one_more(_, _, _)
print_from_one_more(bl, text, i) ==
    IF i > Len(text) THEN << >>
    ELSE (IF i - 1 <= LCD_WIDTH
          THEN write_data(bl, CharAsU8(text[i])) \o long_delay(5000000)
          ELSE << >>)
         \o print_from_one_more(bl, text, i + 1)

\* pub fn print(&mut self, text: &str): the loop, from the char at index i on
\* (i counts from 1 here, enumerate() from 0)
RECURSIVE print_from(_, _, _)
print_from(bl, text, i) ==
    IF i > Len(text) THEN << >>
    ELSE (IF i - 1 < LCD_WIDTH
          THEN write_data(bl, CharAsU8(text[i])) \o long_delay(5000000)
          ELSE << >>)
         \o print_from(bl, text, i + 1)

\* pub fn print(&mut self, text: &str); text is the sequence of its chars
print(bl, text) == print_from(bl, text, 1)

\* clear that returns right after the command
clear_no_wait(bl) == command(bl, LCD_CLEAR_DISPLAY)

\* pub fn clear(&mut self)
clear(bl) == command(bl, LCD_CLEAR_DISPLAY) \o long_delay(2000000)

\* row_offset with 0x04 for 0x40
row_offset_0x04(row) == IF row = 0 THEN 0 ELSE 4

\* pub fn set_cursor(&mut self, col: u8, row: u8): the u8 addition
\* col + row_offset overflows past 255
row_offset(row) == IF row = 0 THEN 0 ELSE 64

Overflows(col, row) == col + row_offset(row) > 255

\* set_cursor that sends the address without the LCD_SET_DDRAM_ADDR opcode
set_cursor_no_opcode(bl, col, row) ==
    command(bl, (col + row_offset(row)) % 256)

\* pub fn set_cursor(&mut self, col: u8, row: u8), when the addition does not
\* panic (it wraps in a build without overflow checks)
set_cursor(bl, col, row) ==
    LET ddram == BitOr(LCD_SET_DDRAM_ADDR, (col + row_offset(row)) % 256)
    IN  command(bl, ddram)

\* pub fn set_backlight(&mut self, on: bool): the value stored in
\* self.backlight
backlight_of(on) == IF on THEN LCD_BACKLIGHT ELSE 0

\* set_backlight that sends the backlight bit as a nibble transmission
set_backlight_pulsed(on) ==
    write_4bits(backlight_of(on), 0) \o long_delay(1000000)

\* pub fn set_backlight(&mut self, on: bool): the steps after the store
set_backlight(on) == i2c_write(backlight_of(on)) \o long_delay(1000000)

----------------------------------------------------------------------------
(* The bus *)

\* One I2C transaction of one byte to addr, as the bus saw it; ok is whether
\* the transport reported success
WriteEv(addr, data, ok) ==
    [kind |-> "write", addr |-> addr, val |-> data, ok |-> ok]

\* A programmed delay, as it elapsed
WaitEv(step) == [kind |-> step.kind, addr |-> 0, val |-> step.val, ok |-> TRUE]

\* The bus accepts every write of the call
NoFault == -1

\* The positions of the writes among the steps of a method body
IsWriteAt(steps, i) == steps[i].kind = "write"
WritePos(steps) ==
    LET at(i) == IsWriteAt(steps, i)
    IN  SelectSeq([i \in 1..Len(steps) |-> i], at)

\* Exec with the Result of i2c_write dropped: the call goes on after the
\* write that failed
ExecNoAbort(steps, addr, fault) ==
    LET failing == fault # NoFault /\ fault < Len(WritePos(steps))
        bad == IF failing THEN WritePos(steps)[fault + 1] ELSE 0
    IN  [i \in 1..Len(steps) |->
            IF steps[i].kind = "write"
            THEN WriteEv(addr, steps[i].val, i # bad)
            ELSE WaitEv(steps[i])]

(***************************************************************************)
(* Exec: the steps of a method body run against the bus at addr.  fault is *)
(* the number of writes the transport accepts before it reports an error   *)
(* (NoFault: it accepts all).  Every i2c_write in the driver is followed   *)
(* by `?` in its caller, and so is every call on the way up to the public  *)
(* method: the write that fails is the last step the call takes.           *)
(***************************************************************************)
Exec(steps, addr, fault) ==
    LET failing == fault # NoFault /\ fault < Len(WritePos(steps))
        last == IF failing THEN WritePos(steps)[fault + 1] ELSE Len(steps)
    IN  [i \in 1..last |->
            IF steps[i].kind = "write"
            THEN WriteEv(addr, steps[i].val, ~(failing /\ i = last))
            ELSE WaitEv(steps[i])]

\* The I2C writes of a transcript
IsWrite(e) == e.kind = "write"
Writes(log) == SelectSeq(log, IsWrite)

\* The Result of a call from what it put on the bus: Err iff a write failed
Failed(log) == \E i \in 1..Len(log) : ~log[i].ok
ResultOf(log) == IF Failed(log) THEN "err" ELSE "ok"

\* The transport may fail at any one of the writes a call attempts, or at none
Faults(steps) == {NoFault} \cup (0 .. (Len(Writes(steps)) - 1))

----------------------------------------------------------------------------
(* The caller *)

\* The most calls the caller makes on one handle
MaxOps == 2

\* The addresses the caller constructs the driver with: LCD_ADDRESS, and the
\* alternative 0x3F
Addresses == {LCD_ADDRESS, 63}

\* Texts are sequences of chars, a char being its code point
Hi == <<72, 105>>

Texts == {<< >>, Hi}

Cursors == {<<0, 1>>, <<5, 0>>, <<200, 1>>}

\* The call returns: what it appended to the transcript, and its record in
\* the call history (bl: self.backlight while the call's steps ran)
Return(op, arg, bl, log) ==
    /\ bus' = bus \o log
    /\ calls' = Append(calls, [op |-> op, arg |-> arg, bl |-> bl,
                               first |-> Len(bus) + 1,
                               last |-> Len(bus) + Len(log),
                               res |-> ResultOf(log)])

Init ==
    /\ handle = "none"
    /\ address = 0
    /\ backlight = 0
    /\ bus = << >>
    /\ calls = << >>

\* new that returns Ok(lcd) whatever init returned
HandleAlways(log) == "ready"

\* lcd.init()?; Ok(lcd): new returns the handle only when init returned Ok
HandleAfterNew(log) == IF Failed(log) THEN "failed" ELSE "ready"

\* let mut lcd = Lcd1602::new(i2c, address)?: the struct literal, then init
New ==
    /\ handle = "none"
    /\ \E a \in Addresses :
         \E steps \in {init(LCD_BACKLIGHT)} :
            \E f \in Faults(steps) :
               \E log \in {Exec(steps, a, f)} :
                  /\ Return("new", <<a>>, LCD_BACKLIGHT, log)
                  /\ handle' = HandleAfterNew(log)
                  /\ IF Failed(log)
                     THEN UNCHANGED <<address, backlight>>
                     ELSE /\ address' = a
                          /\ backlight' = LCD_BACKLIGHT

Usable == handle = "ready" /\ Len(calls) <= MaxOps

\* clear that also turns the backlight back on
ClearResetsBacklight ==
    /\ Usable
    /\ \E steps \in {clear(backlight)} :
         \E f \in Faults(steps) :
            /\ Return("clear", << >>, backlight, Exec(steps, address, f))
            /\ backlight' = LCD_BACKLIGHT
            /\ UNCHANGED <<handle, address>>

\* lcd.clear()
Clear ==
    /\ Usable
    /\ \E steps \in {clear(backlight)} :
         \E f \in Faults(steps) :
            /\ Return("clear", << >>, backlight, Exec(steps, address, f))
            /\ UNCHANGED <<handle, address, backlight>>

\* lcd.set_cursor(col, row); checked: the build panics on integer overflow
SetCursor ==
    /\ Usable
    /\ \E c \in Cursors, checked \in BOOLEAN :
         IF Overflows(c[1], c[2]) /\ checked
         THEN /\ handle' = "aborted"
              /\ bus' = bus
              /\ calls' = Append(calls, [op |-> "set_cursor", arg |-> c,
                                         bl |-> backlight,
                                         first |-> Len(bus) + 1,
                                         last |-> Len(bus), res |-> "panic"])
              /\ UNCHANGED <<address, backlight>>
         ELSE \E steps \in {set_cursor(backlight, c[1], c[2])} :
                \E f \in Faults(steps) :
                   /\ Return("set_cursor", c, backlight,
                             Exec(steps, address, f))
                   /\ UNCHANGED <<handle, address, backlight>>

\* lcd.print(text)
PrintText ==
    /\ Usable
    /\ \E t \in Texts :
         \E steps \in {print(backlight, t)} :
            \E f \in Faults(steps) :
               /\ Return("print", <<t>>, backlight, Exec(steps, address, f))
               /\ UNCHANGED <<handle, address, backlight>>

\* set_backlight that stores the state only once the write went through
DoSetBacklightStoreAfter ==
    \E on \in BOOLEAN :
       \E steps \in {set_backlight(on)} :
          \E f \in Faults(steps) :
             /\ backlight' = (IF f = NoFault THEN backlight_of(on) ELSE backlight)
             /\ Return("set_backlight", <<on>>, backlight_of(on), Exec(steps, address, f))
             /\ UNCHANGED <<handle, address>>

\* lcd.set_backlight(on): self.backlight is stored before the write
DoSetBacklight ==
    \E on \in BOOLEAN :
       \E steps \in {set_backlight(on)} :
          \E f \in Faults(steps) :
             /\ backlight' = backlight_of(on)
             /\ Return("set_backlight", <<on>>, backlight_of(on),
                       Exec(steps, address, f))
             /\ UNCHANGED <<handle, address>>

SetBacklight == Usable /\ DoSetBacklight

Next == New \/ Clear \/ SetCursor \/ PrintText \/ SetBacklight

Spec == Init /\ [][Next]_vars

----------------------------------------------------------------------------
(* The driver after construction, one operation at a time *)

\* The state in which Lcd1602::new(i2c, LCD_ADDRESS) returns Ok(lcd)
Constructed ==
    LET log == Exec(init(LCD_BACKLIGHT), LCD_ADDRESS, NoFault)
    IN  /\ handle = "ready"
        /\ address = LCD_ADDRESS
        /\ backlight = LCD_BACKLIGHT
        /\ bus = << >> \o log
        /\ calls = <<[op |-> "new", arg |-> <<LCD_ADDRESS>>,
                      bl |-> LCD_BACKLIGHT, first |-> 1, last |-> Len(log),
                      res |-> "ok"]>>

LastCall == calls[Len(calls)]

\* lcd.set_backlight(on), as the first call on the new handle
BacklightFirst == handle = "ready" /\ LastCall.op = "new" /\ DoSetBacklight

\* No byte was framed on this handle yet, but for those of init
Unframed == handle = "ready" /\ LastCall.op \in {"new", "set_backlight"}

\* self.command(cmd), for any cmd: u8
Command ==
    /\ Unframed
    /\ \E cmd \in U8 :
         \E steps \in {command(backlight, cmd)} :
            \E f \in Faults(steps) :
               /\ Return("command", <<cmd>>, backlight,
                         Exec(steps, address, f))
               /\ UNCHANGED <<handle, address, backlight>>

\* lcd.write_data(data), for any data: u8
WriteData ==
    /\ Unframed
    /\ \E data \in U8 :
         \E steps \in {write_data(backlight, data)} :
            \E f \in Faults(steps) :
               /\ Return("write_data", <<data>>, backlight,
                         Exec(steps, address, f))
               /\ UNCHANGED <<handle, address, backlight>>

NextFrame == BacklightFirst \/ Command \/ WriteData

\* One command or data byte framed on a constructed driver
SpecFrame == Constructed /\ [][NextFrame]_vars

\* The longest text printed
MaxTextLen == 18

\* "Hello, Scope!", "Line 1: I2C", "Line 2: Analysis" of main
HelloScope == <<72, 101, 108, 108, 111, 44, 32, 83, 99, 111, 112, 101, 33>>
Line1 == <<76, 105, 110, 101, 32, 49, 58, 32, 73, 50, 67>>
Line2 == <<76, 105, 110, 101, 32, 50, 58, 32, 65, 110, 97, 108, 121, 115,
           105, 115>>

\* A text of n distinct chars, some of them past U+00FF
Sample(n) == [i \in 1..n |-> 33 + ((i * 61) % 600)]

LongTexts == {HelloScope, Line1, Line2} \cup {Sample(n) : n \in 0..MaxTextLen}

\* lcd.print(text), once
PrintOnce ==
    /\ Unframed
    /\ \E t \in LongTexts :
         \E steps \in {print(backlight, t)} :
            \E f \in Faults(steps) :
               /\ Return("print", <<t>>, backlight, Exec(steps, address, f))
               /\ UNCHANGED <<handle, address, backlight>>

NextPrint == BacklightFirst \/ PrintOnce

\* One text printed on a constructed driver
SpecPrint == Constructed /\ [][NextPrint]_vars

\* The most set_cursor calls made in a row
MaxCursorCalls == 2

\* The positions of the display: col in [0, LCD_WIDTH), row in [0, LCD_HEIGHT)
LCD_HEIGHT == 2
OnDisplay == (0 .. (LCD_WIDTH - 1)) \X (0 .. (LCD_HEIGHT - 1))

\* lcd.set_cursor(col, row)?, anywhere on the display; main stops at the
\* first Err
MoveCursor ==
    /\ handle = "ready"
    /\ LastCall.res = "ok"
    /\ Len(calls) <= MaxCursorCalls
    /\ \E c \in OnDisplay :
         \E steps \in {set_cursor(backlight, c[1], c[2])} :
            \E f \in Faults(steps) :
               /\ Return("set_cursor", c, backlight, Exec(steps, address, f))
               /\ UNCHANGED <<handle, address, backlight>>

NextCursor == MoveCursor

\* The cursor moved over the display of a constructed driver
SpecCursor == Constructed /\ [][NextCursor]_vars

----------------------------------------------------------------------------
(* Reading the transcript *)

\* Bit k of byte b
Bit(b, k) == (b \div (2 ^ k)) % 2

\* What call c put on the bus, and the bytes of its writes in order
CallLog(c) == SubSeq(bus, c.first, c.last)
CallWrites(c) == Writes(CallLog(c))
Vals(ws) == [i \in 1..Len(ws) |-> ws[i].val]
CallBytes(c) == Vals(CallWrites(c))

\* The three port writes of one enable pulse on control byte b (EN low in b)
Pulse(b) == <<b, b + 4, b>>

CallIds == 1..Len(calls)

----------------------------------------------------------------------------
(* Initialization transcript *)

\* The bytes a complete init puts on the bus, backlight on: what init() of
\* main.rs writes (reset as 0x0B, mode-set as 0x0A) followed by the commands
\* 0x28, 0x0C, 0x01, 0x06
InitBytesOfCode ==
    Pulse(11) \o Pulse(11) \o Pulse(11) \o Pulse(10)
    \o Pulse(40) \o Pulse(136) \o Pulse(8) \o Pulse(200)
    \o Pulse(8) \o Pulse(24) \o Pulse(8) \o Pulse(104)

\* The bytes the specified sequence puts on the bus, backlight on: reset
\* nibble 0x3 and mode-set nibble 0x2 on the data lines D4..D7 with RS = 0
\* (0x38, 0x28), then the same four commands
InitBytesOfSpec ==
    Pulse(56) \o Pulse(56) \o Pulse(56) \o Pulse(40)
    \o Pulse(40) \o Pulse(136) \o Pulse(8) \o Pulse(200)
    \o Pulse(8) \o Pulse(24) \o Pulse(8) \o Pulse(104)

\* C2: a successful initialization emits, in order and with nothing else in
\* between, three reset nibbles 0x3 and one mode-set nibble 0x2 (RS = 0, one
\* nibble each), then the commands 0x28, 0x0C, 0x01, 0x06 as high-then-low
\* nibbles with RS = 0.
C2_InitSequence ==
    \A j \in CallIds :
        (calls[j].op = "new" /\ calls[j].res = "ok")
            => CallBytes(calls[j]) = InitBytesOfSpec

\* C9: every byte written to the expander has the RW bit (bit 1) clear.
C9_WriteOnly ==
    \A i \in 1..Len(bus) : bus[i].kind = "write" => Bit(bus[i].val, 1) = 0

----------------------------------------------------------------------------
(* Errors *)

\* C6: a failed bus write is the last thing its operation does (no further
\* write, no retry, not even a delay), and the operation returns the error:
\* it returns Err exactly when one of its writes failed.
C6_AbortOnBusError ==
    \A j \in CallIds :
        LET log == CallLog(calls[j])
        IN  /\ \A i \in 1..Len(log) : ~log[i].ok => i = Len(log)
            /\ (calls[j].res = "err") = (\E i \in 1..Len(log) : ~log[i].ok)

\* C6 witness: a print failed after its first character went out whole
C6_Witness ==
    \E j \in CallIds :
        /\ calls[j].op = "print"
        /\ calls[j].res = "err"
        /\ Len(CallWrites(calls[j])) > 6

\* C7: a handle exists only after a complete initialization: the first call
\* is new, it returned Ok and its writes are the complete init transcript
\* whenever there is a handle or any other call was made; when init failed,
\* new returned the error, there is no handle and nothing else was written.
C7_HandleOnlyAfterInit ==
    /\ (handle \in {"ready", "aborted"} \/ Len(calls) > 1) =>
          /\ calls[1].op = "new"
          /\ calls[1].res = "ok"
          /\ calls[1].first = 1
          /\ CallBytes(calls[1]) = InitBytesOfCode
          /\ \A i \in 1..calls[1].last : bus[i].ok
          /\ \A j \in CallIds : j > 1 =>
                calls[j].op # "new" /\ calls[j].first > calls[1].last
    /\ (Len(calls) > 0 /\ calls[1].res = "err") =>
          /\ handle = "failed"
          /\ Len(calls) = 1
          /\ Len(bus) = calls[1].last
          /\ ~bus[Len(bus)].ok
    /\ handle = "none" => bus = << >>

\* C7 witness: print wrote to the bus through a handle
C7_Witness ==
    \E j \in CallIds : calls[j].op = "print" /\ Len(CallWrites(calls[j])) > 0

----------------------------------------------------------------------------
(* Nibble transmissions *)

\* The calls made of nibble transmissions only (set_backlight writes raw)
Pulsed(c) == c.op # "set_backlight"

\* C10: every nibble transmission is three single-byte writes to the device
\* address: the control byte with EN low, the same byte with EN high, the
\* same byte with EN low; a call that returns Ok made whole transmissions
\* only, and a failed one stopped inside its last.
C10_ThreeWritesPerNibble ==
    \A j \in CallIds :
        Pulsed(calls[j]) =>
            LET ws == CallWrites(calls[j])
            IN  /\ calls[j].res = "ok" => Len(ws) % 3 = 0
                /\ \A i \in 1..Len(ws) :
                      /\ ws[i].addr = calls[1].arg[1]
                      /\ ws[i].val \in 0..255
                      /\ i % 3 = 1 => Bit(ws[i].val, 2) = 0
                      /\ i % 3 = 2 => ws[i].val = ws[i - 1].val + 4
                      /\ i % 3 = 0 => ws[i].val = ws[i - 2].val

\* C10 witness: a command went out as two whole transmissions
C10_Witness ==
    \E j \in CallIds :
        /\ calls[j].op = "set_cursor"
        /\ calls[j].res = "ok"
        /\ Len(CallWrites(calls[j])) = 6

----------------------------------------------------------------------------
(* Backlight *)

\* Byte b with the backlight bit (bit 3) cleared
WithoutBacklight(b) == b - 8 * Bit(b, 3)

\* The steps call c (a clear, set_cursor or print) takes when self.backlight
\* is bl
StepsOf(c, bl) ==
    CASE c.op = "clear" -> clear(bl)
      [] c.op = "set_cursor" -> set_cursor(bl, c.arg[1], c.arg[2])
      [] c.op = "print" -> print(bl, c.arg[1])

\* set_backlight call i is the latest one before call j
LatestBacklightBefore(i, j) ==
    /\ i < j
    /\ calls[i].op = "set_backlight"
    /\ \A k \in CallIds : (i < k /\ k <= j) => calls[k].op # "set_backlight"

\* C5: after set_backlight(on), every byte written by the operations that
\* follow, up to the next set_backlight, has bit 3 equal to on; and the other
\* seven bits of those bytes are what the operation writes under the other
\* backlight setting.
C5_BacklightBitOnly ==
    \A i, j \in CallIds :
        LatestBacklightBefore(i, j) =>
            LET on == calls[i].arg[1]
                ws == CallBytes(calls[j])
                other == Vals(Writes(StepsOf(calls[j], backlight_of(~on))))
            IN  /\ \A k \in 1..Len(ws) : Bit(ws[k], 3) = (IF on THEN 1 ELSE 0)
                /\ calls[j].res # "panic" =>
                      /\ Len(ws) <= Len(other)
                      /\ calls[j].res = "ok" => Len(ws) = Len(other)
                      /\ \A k \in 1..Len(ws) :
                            WithoutBacklight(ws[k]) = WithoutBacklight(other[k])

\* C5 witness: set_backlight(false), then a print that wrote its text whole
C5_Witness ==
    \E i, j \in CallIds :
        /\ LatestBacklightBefore(i, j)
        /\ calls[i].arg[1] = FALSE
        /\ calls[j].op = "print"
        /\ calls[j].res = "ok"
        /\ Len(CallWrites(calls[j])) = 12

----------------------------------------------------------------------------
(* Framed bytes *)

\* self.backlight when call j ran, from the history: what the latest
\* set_backlight before it asked for, LCD_BACKLIGHT (on) if there was none
StoredBacklight(j) ==
    IF \E i \in CallIds : LatestBacklightBefore(i, j)
    THEN LET i == CHOOSE i \in CallIds : LatestBacklightBefore(i, j)
         IN  IF calls[i].arg[1] THEN 8 ELSE 0
    ELSE 8

\* The six port bytes of value v framed with register-select rs (0 or 1)
\* and backlight bit bl (0 or 8): high nibble, then low nibble
Framed(v, rs, bl) ==
    Pulse((v \div 16) * 16 + rs + bl) \o Pulse((v % 16) * 16 + rs + bl)

\* ws starts with, or is the start of, the bytes expected
IsPrefix(ws, expected) ==
    /\ Len(ws) <= Len(expected)
    /\ \A k \in 1..Len(ws) : ws[k] = expected[k]

\* The k-th byte framed in the port bytes ws, read back from the data lines
\* D4..D7 of its two transmissions
Unframed8(ws, k) == (ws[6 * k - 5] \div 16) * 16 + (ws[6 * k - 2] \div 16)

\* C1: for every 8-bit value and either register-select, send makes exactly
\* two nibble transmissions, high nibble then low nibble, with the same RS
\* and the stored backlight bit: the control bytes are (v & 0xF0)|rs|bl and
\* ((v << 4) & 0xF0)|rs|bl.  (A call cut short by a bus error made the start
\* of that sequence.)
C1_SendTwoNibbles ==
    \A j \in CallIds :
        calls[j].op \in {"command", "write_data"} =>
            LET v == calls[j].arg[1]
                rs == IF calls[j].op = "write_data" THEN 1 ELSE 0
                expected == Framed(v, rs, StoredBacklight(j))
                ws == CallBytes(calls[j])
            IN  /\ IsPrefix(ws, expected)
                /\ calls[j].res = "ok" => Len(ws) = 6

\* C1 witness: data byte 0xA5 went out whole with the backlight off
C1_Witness ==
    \E j \in CallIds :
        /\ calls[j].op = "write_data"
        /\ calls[j].arg[1] = 165
        /\ calls[j].res = "ok"
        /\ StoredBacklight(j) = 0
        /\ Len(CallWrites(calls[j])) = 6

Min(a, b) == IF a < b THEN a ELSE b

\* C3: print of a text of n chars emits exactly min(n, 16) data bytes, each
\* with RS = 1, the i-th being the 8-bit value of the i-th char; the chars
\* from index 16 on cause no bus write and no error.  (A print cut short by
\* a bus error emitted the start of that sequence.)
C3_PrintTruncates ==
    \A j \in CallIds :
        calls[j].op = "print" =>
            LET t == calls[j].arg[1]
                ws == CallBytes(calls[j])
                n == Min(Len(t), 16)
            IN  /\ Len(ws) <= 6 * n
                /\ calls[j].res = "ok" => Len(ws) = 6 * n
                /\ \A k \in 1..Len(ws) : Bit(ws[k], 0) = 1
                /\ \A k \in 1..(Len(ws) \div 6) : Unframed8(ws, k) = t[k] % 256

\* C3 witness: a text of more than 16 chars was printed, and 16 bytes went out
C3_Witness ==
    \E j \in CallIds :
        /\ calls[j].op = "print"
        /\ Len(calls[j].arg[1]) > 16
        /\ calls[j].res = "ok"
        /\ Len(CallWrites(calls[j])) = 96

----------------------------------------------------------------------------
(* Cursor addressing *)

\* The command byte a set_cursor call put on the bus
CursorCommand(c) == Unframed8(CallBytes(c), 1)

\* C4: set_cursor(col, row) sends exactly one command byte (RS = 0), of
\* value 0x80 | (col if row == 0, else 0x40 + col); set_cursor(0,1) sends
\* 0xC0 and set_cursor(5,0) sends 0x85.
C4_SetCursorCommand ==
    \A j \in CallIds :
        (calls[j].op = "set_cursor" /\ calls[j].res = "ok") =>
            LET col == calls[j].arg[1]
                row == calls[j].arg[2]
                ws == CallBytes(calls[j])
            IN  /\ Len(ws) = 6
                /\ \A k \in 1..6 : Bit(ws[k], 0) = 0
                /\ CursorCommand(calls[j]) =
                      128 + (IF row = 0 THEN col ELSE 64 + col)
                /\ (col = 0 /\ row = 1) => CursorCommand(calls[j]) = 192
                /\ (col = 5 /\ row = 0) => CursorCommand(calls[j]) = 133

\* C4 witness: set_cursor(0, 1) and set_cursor(5, 0) both went out
C4_Witness ==
    \E i, j \in CallIds :
        /\ calls[i].op = "set_cursor" /\ calls[i].res = "ok"
        /\ calls[i].arg = <<0, 1>>
        /\ calls[j].op = "set_cursor" /\ calls[j].res = "ok"
        /\ calls[j].arg = <<5, 0>>

\* The DDRAM address in the command of a set_cursor call
DdramAddress(c) == CursorCommand(c) % 128

\* C8: over the display (row in {0,1}, col in [0,16)) the DDRAM address is
\* strictly increasing in col within a row, no address of row 1 is an address
\* of row 0, and row 1 is row 0 moved up by 0x40.
C8_AddressesOrderedDisjoint ==
    \A i, j \in CallIds :
        ( /\ calls[i].op = "set_cursor" /\ calls[i].res = "ok"
          /\ calls[j].op = "set_cursor" /\ calls[j].res = "ok"
          /\ calls[i].arg \in OnDisplay /\ calls[j].arg \in OnDisplay ) =>
            LET ci == calls[i].arg
                cj == calls[j].arg
            IN  /\ (ci[2] = cj[2] /\ ci[1] < cj[1]) =>
                      DdramAddress(calls[i]) < DdramAddress(calls[j])
                /\ (ci[2] = 0 /\ cj[2] = 1) =>
                      /\ DdramAddress(calls[i]) # DdramAddress(calls[j])
                      /\ ci[1] = cj[1] =>
                            DdramAddress(calls[j]) = DdramAddress(calls[i]) + 64

\* C8 witness: the cursor went to (4, 0) and then to (0, 1)
C8_Witness ==
    \E i, j \in CallIds :
        /\ calls[i].op = "set_cursor" /\ calls[i].res = "ok"
        /\ calls[i].arg = <<4, 0>>
        /\ calls[j].op = "set_cursor" /\ calls[j].res = "ok"
        /\ calls[j].arg = <<0, 1>>

----------------------------------------------------------------------------
(* Nibbles on the port *)

\* The byte set up on the port for nibble n (0..15) with register-select rs
\* (0 or 1) and backlight bit bl (0 or 8): n on bits 4-7, EN low, RW low
SetUp(n, rs, bl) == n * 16 + rs + bl

\* The bytes set up by the transmissions of call c: the first write of each
\* three
SetUps(c) ==
    LET ws == CallBytes(c)
    IN  [k \in 1..((Len(ws) + 2) \div 3) |-> ws[3 * k - 2]]

\* C11: every nibble transmission sets up n on bits 4-7, rs on bit 0, the
\* backlight on bit 3, EN low and no other bit: the reset nibbles 0x3 of
\* init are set up as 0x38 and its mode-set nibble 0x2 as 0x28 (backlight
\* on, RS = 0), and so are the two nibbles of every framed byte after them.
C11_NibbleOnDataLines ==
    \A j \in CallIds :
        LET su == SetUps(calls[j])
        IN  /\ Pulsed(calls[j]) =>
                  \A k \in 1..Len(su) : Bit(su[k], 1) = 0 /\ Bit(su[k], 2) = 0
            /\ calls[j].op \in {"clear", "set_cursor", "print"} =>
                  \A k \in 1..Len(su) :
                      su[k] = SetUp(su[k] \div 16,
                                    IF calls[j].op = "print" THEN 1 ELSE 0,
                                    StoredBacklight(j))
            /\ calls[j].op = "new" =>
                  /\ \A k \in 1..Min(Len(su), 3) : su[k] = SetUp(3, 0, 8)
                  /\ Len(su) >= 4 => su[4] = SetUp(2, 0, 8)
                  /\ Len(su) >= 6 =>
                        su[5] = SetUp(2, 0, 8) /\ su[6] = SetUp(8, 0, 8)

----------------------------------------------------------------------------
(* Byte transfers *)

\* The writes of the byte transfers of call c: all of them, but for new,
\* where they follow the twelve writes of the four single nibbles of init
TransferWrites(c) ==
    LET ws == CallWrites(c)
    IN  IF c.op = "new"
        THEN (IF Len(ws) > 12 THEN SubSeq(ws, 13, Len(ws)) ELSE << >>)
        ELSE ws

\* C12 as claimed: every byte transfer that began emitted both of its enable
\* pulses (six accepted writes), in every execution, a failing bus included.
C12_TransfersAlwaysComplete ==
    \A j \in CallIds :
        Pulsed(calls[j]) =>
            LET ws == TransferWrites(calls[j])
            IN  Len(ws) % 6 = 0 /\ \A k \in 1..Len(ws) : ws[k].ok

\* C12, amended: a byte transfer that began runs to completion unless a bus
\* write fails: in a call that returns Ok every byte transfer emitted both
\* enable pulses, high nibble then low nibble with the same RS; a transfer
\* is left incomplete only by a failed write, which ends the call.
C12_TransfersCompleteUnlessBusFails ==
    \A j \in CallIds :
        Pulsed(calls[j]) =>
            LET ws == TransferWrites(calls[j])
                n == Len(ws)
            IN  /\ calls[j].res = "ok" =>
                      /\ n % 6 = 0
                      /\ \A k \in 1..n : ws[k].ok
                /\ \A k \in 1..(n \div 6) :
                      /\ Bit(ws[6 * k - 4].val, 2) = 1
                      /\ Bit(ws[6 * k - 1].val, 2) = 1
                      /\ Bit(ws[6 * k - 5].val, 0) = Bit(ws[6 * k - 2].val, 0)
                /\ (n % 6 # 0 \/ \E k \in 1..n : ~ws[k].ok) =>
                      /\ calls[j].res = "err"
                      /\ ~ws[n].ok
                      /\ \A k \in 1..(n - 1) : ws[k].ok

\* C12 witness: a print stopped at the first write of a low nibble, the high
\* nibble of that byte sent whole
C12_Witness ==
    \E j \in CallIds :
        /\ calls[j].op = "print"
        /\ calls[j].res = "err"
        /\ Len(CallWrites(calls[j])) = 4

----------------------------------------------------------------------------
(* The raw write of set_backlight *)

\* C13: set_backlight(on) issues exactly one bus write, of the backlight bit
\* alone (0x08 when on, 0x00 when off): no RS, no EN, no data bits, no
\* enable pulse.
C13_BacklightRawWrite ==
    \A j \in CallIds :
        calls[j].op = "set_backlight" =>
            LET ws == CallBytes(calls[j])
            IN  /\ Len(ws) = 1
                /\ ws[1] = (IF calls[j].arg[1] THEN 8 ELSE 0)

\* C13 witness: set_backlight(false) returned Ok
C13_Witness ==
    \E j \in CallIds :
        /\ calls[j].op = "set_backlight"
        /\ calls[j].arg[1] = FALSE
        /\ calls[j].res = "ok"

----------------------------------------------------------------------------
(* The fields of the handle *)

\* The latest call is a set_backlight
BacklightCalled == Len(calls) > 0 /\ LastCall.op = "set_backlight"

\* Once there is a handle, a step leaves address alone, and changes
\* backlight only when the call it makes is set_backlight
HandleFrame ==
    handle = "ready" =>
        /\ address' = address
        /\ backlight' # backlight => BacklightCalled'

\* The handle holds the address it was constructed with, every write on the
\* bus went to that address, and the backlight is on as long as
\* set_backlight was never called
HandleFields ==
    /\ \A i \in 1..Len(bus) :
          bus[i].kind = "write" => bus[i].addr = calls[1].arg[1]
    /\ handle = "ready" =>
          /\ address = calls[1].arg[1]
          /\ (\A j \in CallIds : calls[j].op # "set_backlight") =>
                backlight = 8

\* C14: the device address never changes after construction and every bus
\* write of every operation targets it; the stored backlight is changed only
\* by set_backlight, not by init, clear, set_cursor or print, and is on
\* (0x08) from construction until the first set_backlight.
C14_HandleFrame == []HandleFields /\ [][HandleFrame]_vars

\* C14 witness: a clear ran with the backlight off at the address 0x3F
C14_Witness ==
    /\ Len(calls) > 2
    /\ LastCall.op = "clear"
    /\ Len(CallWrites(LastCall)) > 0
    /\ backlight = 0
    /\ address = 63

----------------------------------------------------------------------------
(* Cursor coordinates out of range *)

\* C15: set_cursor neither validates nor clamps: for every col and row it
\* sends exactly one command byte 0x80 | (col if row == 0, else 0x40 + col)
\* taken as an 8-bit quantity, every row but 0 counting as row 1, and the
\* only way it fails is a bus error, also for col >= 192 with row != 0.
C15_SetCursorFailsOnlyOnBus ==
    \A j \in CallIds :
        calls[j].op = "set_cursor" =>
            LET col == calls[j].arg[1]
                row == calls[j].arg[2]
                ws == CallWrites(calls[j])
            IN  /\ calls[j].res \in {"ok", "err"}
                /\ calls[j].res = "err" => \E k \in 1..Len(ws) : ~ws[k].ok
                /\ calls[j].res = "ok" =>
                      /\ Len(ws) = 6
                      /\ \A k \in 1..6 : Bit(ws[k].val, 0) = 0
                      /\ CursorCommand(calls[j]) =
                            BitOr(128, (IF row = 0 THEN col ELSE 64 + col) % 256)

----------------------------------------------------------------------------
(* Programmed delays *)

\* The delay programmed from event p of the bus on, up to the next write or
\* to the end of the transcript, in ns
RECURSIVE WaitFrom(_)
WaitFrom(p) ==
    IF p > Len(bus) \/ bus[p].kind = "write"
    THEN 0
    ELSE bus[p].val + WaitFrom(p + 1)

\* The delay programmed right after the write at p
WaitAfter(p) == WaitFrom(p + 1)

\* The latest write at or before p, the earliest at or after p; 0 if none
RECURSIVE PrevWrite(_)
PrevWrite(p) ==
    IF p < 1 THEN 0
    ELSE IF bus[p].kind = "write" THEN p ELSE PrevWrite(p - 1)

RECURSIVE NextWrite(_)
NextWrite(p) ==
    IF p > Len(bus) THEN 0
    ELSE IF bus[p].kind = "write" THEN p ELSE NextWrite(p + 1)

\* The write at p was accepted and has EN high
EnHighAt(p) == bus[p].kind = "write" /\ bus[p].ok /\ Bit(bus[p].val, 2) = 1

\* The write at p was accepted and takes EN low after the EN-high write,
\* accepted as well, of the same transmission
EnLowAt(p) ==
    /\ bus[p].kind = "write" /\ bus[p].ok /\ Bit(bus[p].val, 2) = 0
    /\ PrevWrite(p - 1) > 0
    /\ EnHighAt(PrevWrite(p - 1))

\* C16: in every nibble transmission the EN-high byte is held for at least
\* 450 ns before the EN-low write is issued, and at least 37 us of programmed
\* delay follow the EN-low write before the first write of the next
\* transmission.
\* Stated of the call that has just returned: every call on the transcript
\* was the latest one in the state where it returned, and the transcript
\* only grows.
C16_EnableTiming ==
    Len(calls) > 0 =>
        \A p \in LastCall.first..LastCall.last :
            /\ (EnHighAt(p) /\ NextWrite(p + 1) > 0) =>
                  WaitAfter(p) >= 450
            /\ EnLowAt(p) => WaitAfter(p) >= 37000

\* C16 witness: the two transmissions of a set_cursor command went out, and
\* a print followed them
C16_Witness ==
    \E j \in CallIds :
        /\ j < Len(calls)
        /\ calls[j].op = "set_cursor" /\ calls[j].res = "ok"
        /\ calls[j + 1].op = "print"
        /\ Len(CallWrites(calls[j + 1])) = 12

\* Bus position of the k-th write at or after p; 0 if there is none
RECURSIVE NthWrite(_, _)
NthWrite(p, k) ==
    IF p > Len(bus) THEN 0
    ELSE IF bus[p].kind # "write" THEN NthWrite(p + 1, k)
    ELSE IF k = 1 THEN p ELSE NthWrite(p + 1, k - 1)

\* Call c made a k-th write, and the bus position of that write
WroteAt(c, k) == NthWrite(c.first, k) \in c.first..c.last
WriteAt(c, k) == NthWrite(c.first, k)

\* At least ns of delay were programmed after the k-th write of call c, if
\* that write was made and accepted
WaitedAfter(c, k, ns) ==
    (WroteAt(c, k) /\ bus[WriteAt(c, k)].ok) =>
        WaitAfter(WriteAt(c, k)) >= ns

\* C17: init waits at least 40 ms before its first bus write, at least
\* 4.1 ms after the first reset nibble, and at least 100 us after the second
\* reset nibble, after the third and after the mode-set nibble, before the
\* next transmission begins.
\* Stated where new has just returned: later calls only append to the
\* transcript.
C17_InitGatingDelays ==
    Len(calls) = 1 =>
        LET c == calls[1]
        IN  /\ c.op = "new"
            /\ Len(bus) > 0
            /\ WaitFrom(1) >= 40000000
            /\ WaitedAfter(c, 3, 4100000)
            /\ WaitedAfter(c, 6, 100000)
            /\ WaitedAfter(c, 9, 100000)
            /\ WaitedAfter(c, 12, 100000)

\* C17 witness: init got past the mode-set nibble and failed in the
\* function-set command
C17_Witness ==
    /\ Len(calls) = 1
    /\ calls[1].res = "err"
    /\ Len(CallWrites(calls[1])) = 14

\* The framer's wait after a command: the settle time of the pulse and the
\* delay of command()
CommandWait == 50000 + 2000000

\* C18: every clear-display command, sent by clear() or by init, is followed
\* by the clear-specific delay of at least 1.52 ms, on top of the framer's
\* wait after a command, before the next bus write or the return.
\* Stated of the call that has just returned, as C16 is.
C18_ClearDelay ==
    Len(calls) > 0 =>
        /\ (LastCall.op = "clear" /\ LastCall.res = "ok") =>
              /\ CallBytes(LastCall) = Framed(1, 0, LastCall.bl)
              /\ WaitedAfter(LastCall, 6, CommandWait + 1520000)
        /\ (LastCall.op = "new" /\ WroteAt(LastCall, 30)) =>
              /\ SubSeq(CallBytes(LastCall), 25, 30) = Framed(1, 0, 8)
              /\ WaitedAfter(LastCall, 30, CommandWait + 1520000)

\* C18 witness: a clear returned Ok after a set_cursor
C18_Witness ==
    /\ Len(calls) > 2
    /\ calls[Len(calls) - 1].op = "set_cursor"
    /\ LastCall.op = "clear" /\ LastCall.res = "ok"
    /\ WroteAt(LastCall, 6)

----------------------------------------------------------------------------
(* The enable line at rest *)

\* The latest accepted write at or before p; 0 if none
RECURSIVE PrevAccepted(_)
PrevAccepted(p) ==
    IF p < 1 THEN 0
    ELSE IF bus[p].kind = "write" /\ bus[p].ok THEN p ELSE PrevAccepted(p - 1)

\* Bus position of the last byte the expander accepted, and the EN bit of
\* that byte
LastAccepted == PrevAccepted(Len(bus))
EnAtRest == Bit(bus[LastAccepted].val, 2)

\* The write attempted after the last accepted one; 0 if none
Refused == NextWrite(LastAccepted + 1)

\* C19 as claimed: whenever an operation has returned, with Ok or with an
\* error, the last byte the expander accepted has EN (bit 2) clear.
C19_EnableLowWhenIdle ==
    (Len(calls) > 0 /\ LastAccepted > 0) => EnAtRest = 0

\* C19, amended: after an operation that returned Ok and wrote, the last
\* accepted byte has EN clear; EN is left high at rest only when the EN-low
\* write that was to follow the last accepted byte failed.
C19_EnableLowUnlessLowWriteFailed ==
    /\ (Len(calls) > 0 /\ LastCall.res = "ok" /\ LastCall.last >= LastCall.first) =>
          /\ LastAccepted > 0
          /\ EnAtRest = 0
    /\ (LastAccepted > 0 /\ EnAtRest = 1) =>
          /\ Refused > 0
          /\ ~bus[Refused].ok
          /\ bus[Refused].val = bus[LastAccepted].val - 4

\* C19 witness: a print on the handle stopped at a failed EN-low write and
\* left EN high
C19_Witness ==
    /\ handle = "ready"
    /\ LastCall.op = "print"
    /\ LastCall.res = "err"
    /\ LastAccepted > 0
    /\ EnAtRest = 1

----------------------------------------------------------------------------
(* The backlight state after a failed set_backlight *)

\* C20: set_backlight stores the requested state before its port write:
\* after set_backlight(on) returns, Ok or with a bus error, the stored state
\* equals on, and every later transmission carries the requested backlight
\* bit, also when the raw write failed.
C20_BacklightStoredFirst ==
    \A i \in CallIds :
        calls[i].op = "set_backlight" =>
            LET on == calls[i].arg[1]
            IN  /\ LatestBacklightBefore(i, Len(calls) + 1) =>
                      backlight = (IF on THEN 8 ELSE 0)
                /\ \A j \in CallIds :
                      LatestBacklightBefore(i, j) =>
                          LET ws == CallBytes(calls[j])
                          IN  \A k \in 1..Len(ws) :
                                  Bit(ws[k], 3) = (IF on THEN 1 ELSE 0)

\* C20 witness: set_backlight(false) failed and the print after it went out
C20_Witness ==
    \E i \in CallIds :
        /\ i < Len(calls)
        /\ calls[i].op = "set_backlight"
        /\ calls[i].arg[1] = FALSE
        /\ calls[i].res = "err"
        /\ calls[i + 1].op = "print"
        /\ calls[i + 1].res = "ok"
        /\ Len(CallWrites(calls[i + 1])) = 12

====
